---- MODULE Spec2Model ----
(***************************************************************************)
(* Model of triangulate_point_cloud/src/triangulate_pcl.cpp: the ROS       *)
(* service "triangulate" (onTriangulatePcl), its pipeline reconstructMesh  *)
(* and the conversion polygonMeshToShapeMsg.                               *)
(*                                                                         *)
(* Two specifications:                                                     *)
(*   Spec       the service: requests are received, converted, smoothed,   *)
(*              hulled, converted to a shape message and answered.         *)
(*   SpecShape  polygonMeshToShapeMsg alone, called on arbitrary points,   *)
(*              polygon lists and pre-existing meshes.                     *)
(*                                                                         *)
(* The PCL classes MovingLeastSquares and ConvexHull are library code that *)
(* is not part of the repository.  Their results are over-approximated by  *)
(* what their signatures and index contract allow: every call picks one of *)
(* the admissible outputs.                                                 *)
(***************************************************************************)
EXTENDS Integers, Sequences, FiniteSets, TLC

VARIABLES
  \* ---- the service, one entry per request slot
  pc,           \* position of the request's handler
  req_points,   \* req.points, the sensor_msgs::PointCloud of the request
  res_mesh,     \* res.mesh, the shape_msgs::Mesh of the response
  ret,          \* what onTriangulatePcl returned: "none", TRUE or FALSE
  cloud,        \* onTriangulatePcl: cloud (line 122)
  tree,         \* reconstructMesh: the cloud the KdTree was built on (line 62)
  mls_points,   \* reconstructMesh: mls_points (line 64)
  mls_normals,  \* reconstructMesh: mls_normals (line 65)
  hull_in,      \* the cloud given to ch.setInputCloud (line 78)
  out_cloud,    \* onTriangulatePcl: out_cloud (line 125)
  triangles,    \* onTriangulatePcl: triangles (line 126)
  warned,       \* number of ROS_WARN lines the request's handler logged
  \* ---- polygonMeshToShapeMsg called on its own
  sh_pc,        \* "off", "call" (arguments chosen) or "done" (returned)
  sh_points,    \* argument points
  sh_polys,     \* argument triangles
  sh_before,    \* argument mesh as it was before the call
  sh_mesh,      \* argument mesh
  sh_warn,      \* number of ROS_WARN lines logged by the call
  sh_origin,    \* per pushed triangle, the position of its polygon
  sh_fault      \* the call read past the end of a polygon's vertices

svars == <<pc, req_points, res_mesh, ret, cloud, tree, mls_points, mls_normals,
           hull_in, out_cloud, triangles, warned>>

shvars == <<sh_pc, sh_points, sh_polys, sh_before, sh_mesh, sh_warn,
            sh_origin, sh_fault>>

vars == <<svars, shvars>>

\* ------------------------------------------------------------------ bounds
\* longest point cloud of a request
MaxPts == 2
\* longest polygon list handed to polygonMeshToShapeMsg
MaxPolys == 2
\* longest polygon (4 = one more than a triangle)
MaxPolyLen == 4
\* largest vertex index appearing in a polygon of SpecShape
MaxIdx == 2

\* the two request slots of the service (two requests in flight at most)
Reqs == {"a", "b"}

\* ------------------------------------------------------------------- data
\* Sample positions.  A position is a float triple; the program never
\* inspects coordinates, it only copies them, so two positions with pairwise
\* distinct coordinates are enough to tell every copy apart.
Positions == {<<0, 1, 2>>, <<3, 4, 5>>}

\* geometry_msgs::Point32 / geometry_msgs::Point: a record of x, y, z
MsgPoint(p) == [x |-> p[1], y |-> p[2], z |-> p[3]]

\* sequences over S of length at most n
SeqUpTo(S, n) == UNION {[1..l -> S] : l \in 0..n}

\* pcl::PointCloud<PointXYZ>: a sequence of PointXYZ, here <<x, y, z>>
Clouds == SeqUpTo(Positions, MaxPts)

\* sensor_msgs::PointCloud (req.points): a sequence of Point32
RequestClouds == {[i \in 1..Len(c) |-> MsgPoint(c[i])] : c \in Clouds}

\* pcl::Vertices: a sequence of vertex indices (uint32_t).
\* Polygon(n, s) has n vertices s, s+1, ... (cyclically in 0..MaxIdx), so
\* that its first three indices are pairwise distinct and not all zero.
Polygon(n, s) == [i \in 1..n |-> (s + i - 1) % (MaxIdx + 1)]

\* Of a polygon with fewer than 3 vertices the program reads the size only
\* (line 102), so one polygon of each such size is enough.
Polygons ==
  UNION {{Polygon(n, s) : s \in IF n < 3 THEN {0} ELSE 0..MaxIdx} : n \in 0..MaxPolyLen}

PolygonLists == SeqUpTo(Polygons, MaxPolys)

\* shape_msgs::Mesh
EmptyMesh == [vertices |-> <<>>, triangles |-> <<>>]

\* a mesh that already holds data: more vertices than any cloud has points,
\* and one triangle
StaleMesh ==
  [vertices |-> [i \in 1..(MaxPts + 1) |-> MsgPoint(<<3, 4, 5>>)],
   triangles |-> << <<1, 1, 1>> >>]

\* ------------------------------------------------- polygonMeshToShapeMsg
\* geometry_msgs::Point() : all coordinates zero
ZeroPoint == [x |-> 0, y |-> 0, z |-> 0]

\* toPoint, lines 82-88: out.x = in.x; out.y = in.y; out.z = in.z
toPoint(in) == [x |-> in[1], y |-> in[2], z |-> in[3]]

\* std::vector::resize(n), line 95: keeps the first n elements, fills the
\* rest with default-constructed points
\* (faulty variant: the resize is left out)
Resize_keep(v, n) == v

Resize(v, n) == [i \in 1..n |-> IF i <= Len(v) THEN v[i] ELSE ZeroPoint]

\* lines 95-97: resize mesh.vertices to the cloud's size, then overwrite
\* every entry i < points.points.size() with toPoint(points.points[i])
CopyVertices(points, vertices) ==
  LET r == Resize(vertices, Len(points))
  IN  [i \in 1..Len(r) |-> IF i <= Len(points) THEN toPoint(points[i]) ELSE r[i]]

\* line 102: if (polygon.vertices.size() < 3) -> warn and continue
\* (faulty variants: other comparisons in line 102)
Discarded_lt2(polygon) == Len(polygon) < 2

Discarded_not3(polygon) == Len(polygon) # 3

Discarded_gt3(polygon) == Len(polygon) > 3

Discarded_ge3(polygon) == Len(polygon) >= 3

Discarded(polygon) == Len(polygon) < 3

\* shape_msgs::MeshTriangle(): vertex_indices value-initialised to {0, 0, 0}
MeshTriangle == <<0, 0, 0>>

\* lines 108-112: a local `triangle` receives the polygon's first three
\* indices, but what is pushed is a new default-constructed MeshTriangle
PushedTriangle(polygon) ==
  LET triangle == <<polygon[1], polygon[2], polygon[3]>>
  IN  MeshTriangle

\* lines 100-113, the BOOST_FOREACH loop from polygon k on.
\* acc.triangles  mesh.triangles so far
\* acc.warnings   number of ROS_WARN("Not enough points in polygon...")
\* acc.origin     for every triangle pushed by this call, the position in
\*                the polygon list of the polygon it was pushed for
\* acc.fault      TRUE when a polygon with fewer than 3 vertices reached
\*                line 109 (a read past the end of polygon.vertices)
\* (faulty variant: the `continue` of line 105 is missing)
RECURSIVE ForEachPolygon_nocontinue(_, _, _)
ForEachPolygon_nocontinue(polys, k, acc) ==
  IF k > Len(polys) THEN acc
  ELSE LET polygon == polys[k]
           warn == IF Len(polygon) < 3 THEN 1 ELSE 0
       IN  ForEachPolygon_nocontinue(polys, k + 1,
             [acc EXCEPT !.warnings = @ + warn,
                         !.triangles = Append(@, <<0, 0, 0>>),
                         !.origin = Append(@, k),
                         !.fault = @ \/ Len(polygon) < 3])

RECURSIVE ForEachPolygon(_, _, _)
ForEachPolygon(polys, k, acc) ==
  IF k > Len(polys) THEN acc
  ELSE LET polygon == polys[k]
       IN  IF Discarded(polygon)
           THEN ForEachPolygon(polys, k + 1,
                  [acc EXCEPT !.warnings = @ + 1])
           ELSE ForEachPolygon(polys, k + 1,
                  [acc EXCEPT !.triangles = Append(@, PushedTriangle(polygon)),
                              !.origin = Append(@, k),
                              !.fault = @ \/ Len(polygon) < 3])

\* lines 90-114
polygonMeshToShapeMsg(points, polys, mesh) ==
  LET loop == ForEachPolygon(polys, 1,
                [triangles |-> mesh.triangles, warnings |-> 0,
                 origin |-> <<>>, fault |-> FALSE])
  IN  [mesh |-> [vertices |-> CopyVertices(points, mesh.vertices),
                 triangles |-> loop.triangles],
       warnings |-> loop.warnings,
       origin |-> loop.origin,
       fault |-> loop.fault]

\* ------------------------------------------------------------ conversions
\* sensor_msgs::convertPointCloudToPointCloud2, line 121: the Point32
\* sequence becomes a PointCloud2 of `width` points whose data holds the
\* coordinates one after the other (fields x, y, z)
convertPointCloudToPointCloud2(points) ==
  [width |-> Len(points),
   data |-> [j \in 1..(3 * Len(points)) |->
               LET p == points[((j - 1) \div 3) + 1]
               IN  CASE (j - 1) % 3 = 0 -> p.x
                     [] (j - 1) % 3 = 1 -> p.y
                     [] OTHER -> p.z]]

\* pcl::fromROSMsg, line 123: reads x, y, z of each of the `width` points
fromROSMsg(cloud_raw) ==
  [i \in 1..cloud_raw.width |->
     <<cloud_raw.data[3 * i - 2], cloud_raw.data[3 * i - 1], cloud_raw.data[3 * i]>>]

\* ------------------------------------------------------- library results
\* MovingLeastSquares::process, line 74: the smoothed cloud has at most as
\* many points as the input (points without a stable fit are dropped) and
\* the surviving points may have moved.  Only positions are kept here; the
\* normals of PointNormal are read by nothing.
MLSOutputs(input) == {s \in Clouds : Len(s) <= Len(input)}

\* polygons all of whose vertex indices are positions in a cloud of n points
PolygonsOver(n) == {q \in Polygons : \A i \in 1..Len(q) : q[i] < n}

\* ConvexHull::reconstruct, line 79: the hull's vertices are points of the
\* input, and every polygon indexes the hull's vertices.  Nothing else is
\* assumed: a polygon may be short (line 102 expects that) or long.
HullOutputs(input) ==
  UNION {
    {[points |-> p, polygons |-> ps] : ps \in SeqUpTo(PolygonsOver(Len(p)), MaxPolys)} :
      p \in {s \in Clouds : /\ Len(s) <= Len(input)
                           /\ \A i \in 1..Len(s) : \E j \in 1..Len(input) : s[i] = input[j]}}

\* onTriangulatePcl, line 137: the only return statement
\* (faulty variant: success only for a non-empty cloud)
onTriangulatePclResult_nonempty(in_cloud) == Len(in_cloud) > 0

onTriangulatePclResult(in_cloud) == TRUE

\* ------------------------------------------------------------ the service
\* every slot idle: the node is advertised and spinning (lines 169-171)
ServiceInit ==
  /\ pc = [r \in Reqs |-> "idle"]
  /\ req_points = [r \in Reqs |-> <<>>]
  /\ res_mesh = [r \in Reqs |-> EmptyMesh]
  /\ ret = [r \in Reqs |-> "none"]
  /\ cloud = [r \in Reqs |-> <<>>]
  /\ tree = [r \in Reqs |-> <<>>]
  /\ mls_points = [r \in Reqs |-> <<>>]
  /\ mls_normals = [r \in Reqs |-> <<>>]
  /\ hull_in = [r \in Reqs |-> <<>>]
  /\ out_cloud = [r \in Reqs |-> <<>>]
  /\ triangles = [r \in Reqs |-> <<>>]
  /\ warned = [r \in Reqs |-> 0]

ShapeOff ==
  /\ sh_pc = "off"
  /\ sh_points = <<>>
  /\ sh_polys = <<>>
  /\ sh_before = EmptyMesh
  /\ sh_mesh = EmptyMesh
  /\ sh_warn = 0
  /\ sh_origin = <<>>
  /\ sh_fault = FALSE

Init == ServiceInit /\ ShapeOff

\* A request arrives (lines 116-118).  The caller hands a request and a
\* newly constructed response (as test() does in lines 156-158); nothing of
\* an earlier call in this slot is left.
Receive(r, points) ==
  /\ pc[r] \in {"idle", "done"}
  /\ pc' = [pc EXCEPT ![r] = "convert"]
  /\ req_points' = [req_points EXCEPT ![r] = points]
  /\ res_mesh' = [res_mesh EXCEPT ![r] = EmptyMesh]
  /\ ret' = [ret EXCEPT ![r] = "none"]
  /\ warned' = [warned EXCEPT ![r] = 0]
  /\ hull_in' = [hull_in EXCEPT ![r] = <<>>]
  /\ UNCHANGED <<cloud, tree, mls_points, mls_normals, out_cloud, triangles>>
  /\ UNCHANGED shvars

\* lines 120-126: req.points -> PointCloud2 -> PCL cloud; out_cloud and
\* triangles are constructed empty
Convert(r) ==
  /\ pc[r] = "convert"
  /\ pc' = [pc EXCEPT ![r] = "smooth"]
  /\ cloud' = [cloud EXCEPT ![r] = fromROSMsg(convertPointCloudToPointCloud2(req_points[r]))]
  /\ out_cloud' = [out_cloud EXCEPT ![r] = <<>>]
  /\ triangles' = [triangles EXCEPT ![r] = <<>>]
  /\ UNCHANGED <<req_points, res_mesh, ret, tree, mls_points, mls_normals, hull_in, warned>>
  /\ UNCHANGED shvars

\* reconstructMesh, lines 57-74: the KdTree is built on the input cloud,
\* mls_points and mls_normals are constructed empty, the smoother reads the
\* input cloud and writes its result to mls_normals (line 74).  mls_points
\* is written by nothing.
Smooth(r) ==
  /\ pc[r] = "smooth"
  /\ pc' = [pc EXCEPT ![r] = "hull"]
  /\ tree' = [tree EXCEPT ![r] = cloud[r]]
  /\ mls_points' = [mls_points EXCEPT ![r] = <<>>]
  /\ \E out \in MLSOutputs(cloud[r]) :
       mls_normals' = [mls_normals EXCEPT ![r] = out]
  /\ UNCHANGED <<req_points, res_mesh, ret, cloud, hull_in, out_cloud, triangles, warned>>
  /\ UNCHANGED shvars

\* reconstructMesh, lines 76-80: the hull's input is mls_points; its result
\* goes to the caller's out_cloud and triangles; reconstructMesh returns and
\* its locals (the tree, mls_points, mls_normals) are destroyed
\* (faulty variant: out_cloud and triangles are one buffer shared by all calls)
Hull_static(r) ==
  /\ pc[r] = "hull"
  /\ pc' = [pc EXCEPT ![r] = "shape"]
  /\ hull_in' = [hull_in EXCEPT ![r] = mls_points[r]]
  /\ \E h \in HullOutputs(mls_points[r]) :
       /\ out_cloud' = [q \in Reqs |-> h.points]
       /\ triangles' = [q \in Reqs |-> h.polygons]
  /\ tree' = [tree EXCEPT ![r] = <<>>]
  /\ mls_points' = [mls_points EXCEPT ![r] = <<>>]
  /\ mls_normals' = [mls_normals EXCEPT ![r] = <<>>]
  /\ UNCHANGED <<req_points, res_mesh, ret, cloud, warned>>
  /\ UNCHANGED shvars

Hull(r) ==
  /\ pc[r] = "hull"
  /\ pc' = [pc EXCEPT ![r] = "shape"]
  /\ hull_in' = [hull_in EXCEPT ![r] = mls_points[r]]
  /\ \E h \in HullOutputs(mls_points[r]) :
       /\ out_cloud' = [out_cloud EXCEPT ![r] = h.points]
       /\ triangles' = [triangles EXCEPT ![r] = h.polygons]
  /\ tree' = [tree EXCEPT ![r] = <<>>]
  /\ mls_points' = [mls_points EXCEPT ![r] = <<>>]
  /\ mls_normals' = [mls_normals EXCEPT ![r] = <<>>]
  /\ UNCHANGED <<req_points, res_mesh, ret, cloud, warned>>
  /\ UNCHANGED shvars

\* lines 130-133: polygonMeshToShapeMsg(out_cloud, triangles, res.mesh)
Shape(r) ==
  /\ pc[r] = "shape"
  /\ pc' = [pc EXCEPT ![r] = "return"]
  /\ LET result == polygonMeshToShapeMsg(out_cloud[r], triangles[r], res_mesh[r])
     IN  /\ res_mesh' = [res_mesh EXCEPT ![r] = result.mesh]
         /\ warned' = [warned EXCEPT ![r] = @ + result.warnings]
  /\ UNCHANGED <<req_points, ret, cloud, tree, mls_points, mls_normals, hull_in,
                 out_cloud, triangles>>
  /\ UNCHANGED shvars

\* lines 135-138: return true; the handler's locals are destroyed
Return(r) ==
  /\ pc[r] = "return"
  /\ pc' = [pc EXCEPT ![r] = "done"]
  /\ ret' = [ret EXCEPT ![r] = onTriangulatePclResult(cloud[r])]
  /\ cloud' = [cloud EXCEPT ![r] = <<>>]
  /\ out_cloud' = [out_cloud EXCEPT ![r] = <<>>]
  /\ triangles' = [triangles EXCEPT ![r] = <<>>]
  /\ UNCHANGED <<req_points, res_mesh, tree, mls_points, mls_normals, hull_in, warned>>
  /\ UNCHANGED shvars

Next ==
  \E r \in Reqs :
    \/ \E points \in RequestClouds : Receive(r, points)
    \/ Convert(r)
    \/ Smooth(r)
    \/ Hull(r)
    \/ Shape(r)
    \/ Return(r)

Spec == Init /\ [][Next]_vars

\* ------------------------------------------ polygonMeshToShapeMsg alone
\* the arguments of one call: any cloud, any polygon list, and a mesh that
\* is empty or already holds vertices and a triangle
InitShape ==
  /\ ServiceInit
  /\ sh_pc = "call"
  /\ sh_points \in Clouds
  /\ sh_polys \in PolygonLists
  /\ sh_before \in {EmptyMesh, StaleMesh}
  /\ sh_mesh = sh_before
  /\ sh_warn = 0
  /\ sh_origin = <<>>
  /\ sh_fault = FALSE

\* lines 90-114, the whole call
ShapeCall ==
  /\ sh_pc = "call"
  /\ sh_pc' = "done"
  /\ LET result == polygonMeshToShapeMsg(sh_points, sh_polys, sh_mesh)
     IN  /\ sh_mesh' = result.mesh
         /\ sh_warn' = result.warnings
         /\ sh_origin' = result.origin
         /\ sh_fault' = result.fault
  /\ UNCHANGED <<sh_points, sh_polys, sh_before>>
  /\ UNCHANGED svars

NextShape == ShapeCall

SpecShape == InitShape /\ [][NextShape]_vars

\* ================================================================ claims
\* ---- helpers of the statements below
\* the polygons of a list that have at least 3 vertices, in order
Surviving(polys) == SelectSeq(polys, LAMBDA q : Len(q) >= 3)

\* the triangles the call appended to mesh.triangles
Appended ==
  SubSeq(sh_mesh.triangles, Len(sh_before.triangles) + 1, Len(sh_mesh.triangles))

\* the number of triangles pushed for the polygon at position k
PushedFor(k) == Cardinality({j \in 1..Len(sh_origin) : sh_origin[j] = k})

\* everything a request's handler owns
Locals(r) ==
  <<pc[r], req_points[r], res_mesh[r], ret[r], cloud[r], tree[r], mls_points[r],
    mls_normals[r], hull_in[r], out_cloud[r], triangles[r], warned[r]>>

\* the meshes a request with these points can be answered with when it is
\* the only request the service ever handles
AloneMeshes(points) ==
  LET c == fromROSMsg(convertPointCloudToPointCloud2(points))
      smoothed == MLSOutputs(c)
      hull_input == <<>>
  IN  IF smoothed = {} THEN {}
      ELSE {polygonMeshToShapeMsg(h.points, h.polygons, EmptyMesh).mesh :
              h \in HullOutputs(hull_input)}

\* ---- C1: the k-th triangle appended by polygonMeshToShapeMsg holds the
\* first three vertex indices, in order, of the k-th polygon that has at
\* least 3 vertices.
C1_FirstThreeEmitted ==
  sh_pc = "done" =>
    /\ Len(Appended) = Len(Surviving(sh_polys))
    /\ \A k \in 1..Len(Appended) :
         LET q == Surviving(sh_polys)[k]
         IN  Appended[k] = <<q[1], q[2], q[3]>>

\* ---- C2: a polygon with fewer than 3 vertices is discarded with one
\* warning and yields no triangle, a polygon with 3 or more vertices yields
\* exactly one; so the triangles added number the polygons with >= 3
\* vertices, the warnings number the polygons with < 3 vertices, and the
\* call never fails (it can always run, and never reads past a polygon's end).
C2_ShortPolygonsDiscarded ==
  /\ sh_pc = "call" => ENABLED ShapeCall
  /\ sh_pc = "done" =>
       /\ \A k \in 1..Len(sh_polys) :
            PushedFor(k) = IF Len(sh_polys[k]) < 3 THEN 0 ELSE 1
       /\ Len(Appended) = Cardinality({k \in 1..Len(sh_polys) : Len(sh_polys[k]) >= 3})
       /\ sh_warn = Cardinality({k \in 1..Len(sh_polys) : Len(sh_polys[k]) < 3})
       /\ ~sh_fault

C2_Witness ==
  /\ sh_pc = "done"
  /\ Len(sh_polys) = 2
  /\ Len(sh_polys[1]) = 2
  /\ Len(sh_polys[2]) = 3
  /\ sh_warn = 1
  /\ Len(Appended) = 1

\* ---- C3: every triangle of the mesh returned for a request has all three
\* vertex indices below the number of vertices of that mesh.
C3_TriangleIndicesValid ==
  \A r \in Reqs :
    pc[r] = "done" =>
      \A k \in 1..Len(res_mesh[r].triangles) :
        \A j \in 1..3 : res_mesh[r].triangles[k][j] < Len(res_mesh[r].vertices)

\* a request with points was answered although the hull had returned
\* polygons: none of them became a triangle of the vertex-less mesh
C3_Witness ==
  \E r \in Reqs :
    /\ pc[r] = "done"
    /\ Len(req_points[r]) > 0
    /\ warned[r] > 0
    /\ Len(res_mesh[r].vertices) = 0
    /\ Len(res_mesh[r].triangles) = 0

\* ---- C4: the cloud given to the convex hull is the cloud the smoother
\* wrote for the same call, so a non-empty smoother output means a hull
\* over a non-empty cloud.
C4_HullInputIsSmoothed ==
  [][\A r \in Reqs :
       (pc[r] = "hull" /\ pc'[r] = "shape") =>
         /\ hull_in'[r] = mls_normals[r]
         /\ Len(mls_normals[r]) > 0 => Len(hull_in'[r]) > 0]_vars

C6_SmallHullNoTriangles ==
  \A r \in Reqs :
    /\ (pc[r] = "hull" /\ Len(mls_points[r]) < 4) => ENABLED Hull(r)
    /\ (pc[r] \in {"return", "done"} /\ Len(hull_in[r]) < 4) =>
         res_mesh[r].triangles = <<>>
    /\ (pc[r] = "done" /\ Len(hull_in[r]) < 4) => ret[r] = TRUE

C6_Witness ==
  \E r \in Reqs :
    /\ pc[r] = "done"
    /\ Len(hull_in[r]) < 4
    /\ Len(req_points[r]) = MaxPts
    /\ warned[r] = MaxPolys
    /\ res_mesh[r].triangles = <<>>

\* ---- C7 (as claimed): no triangle of the output comes from a polygon
\* with more than 3 vertices.
C7_NoLongPolygonEmitted ==
  sh_pc = "done" =>
    \A j \in 1..Len(sh_origin) : Len(sh_polys[sh_origin[j]]) <= 3

\* ---- C7 (amended): a polygon with more than 3 vertices is emitted as
\* exactly one triangle: it is neither dropped nor fanned into several.
C7_LongPolygonOneTriangle ==
  sh_pc = "done" =>
    \A k \in 1..Len(sh_polys) : Len(sh_polys[k]) > 3 => PushedFor(k) = 1

C7_Witness ==
  /\ sh_pc = "done"
  /\ \E k \in 1..Len(sh_polys) : Len(sh_polys[k]) > 3 /\ PushedFor(k) = 1

\* ---- C8: two answered requests that carried the same point cloud got the
\* same mesh (and the same return value), whatever else the service handled
\* before or in between.
C8_SameCloudSameMesh ==
  \A r, q \in Reqs :
    (pc[r] = "done" /\ pc[q] = "done" /\ req_points[r] = req_points[q]) =>
      /\ res_mesh[r] = res_mesh[q]
      /\ ret[r] = ret[q]

\* two answers to the same non-empty cloud, although the hull behaved
\* differently in the two calls
C8_Witness ==
  \E r, q \in Reqs :
    /\ r # q
    /\ pc[r] = "done" /\ pc[q] = "done"
    /\ req_points[r] = req_points[q]
    /\ Len(req_points[r]) > 0
    /\ warned[r] # warned[q]
    /\ res_mesh[r] = res_mesh[q]

\* ---- C9: a step of one request's handler changes nothing another request
\* owns, and every answer is one the request would get when run alone.
C9_NoInterference ==
  /\ [][\A r \in Reqs :
          Locals(r)' # Locals(r) => \A q \in Reqs \ {r} : Locals(q)' = Locals(q)]_vars
  /\ [](\A r \in Reqs : pc[r] = "done" => res_mesh[r] \in AloneMeshes(req_points[r]))

\* one request is answered while another one, with a different cloud, holds
\* a hull result that has not been converted yet
C9_Witness ==
  \E r, q \in Reqs :
    /\ pc[r] = "done" /\ pc[q] = "shape"
    /\ req_points[r] # req_points[q]
    /\ triangles[q] # <<>>
    /\ res_mesh[r] \in AloneMeshes(req_points[r])

\* ---- C10: after polygonMeshToShapeMsg, mesh.vertices has as many entries
\* as the cloud has points and the i-th vertex has the x, y, z of the i-th
\* point, whatever the mesh held before and whatever the polygons are.
C10_VerticesCopied ==
  sh_pc = "done" =>
    /\ Len(sh_mesh.vertices) = Len(sh_points)
    /\ \A i \in 1..Len(sh_points) :
         /\ sh_mesh.vertices[i].x = sh_points[i][1]
         /\ sh_mesh.vertices[i].y = sh_points[i][2]
         /\ sh_mesh.vertices[i].z = sh_points[i][3]

C10_Witness ==
  /\ sh_pc = "done"
  /\ sh_before = StaleMesh
  /\ Len(sh_points) = MaxPts
  /\ sh_points[1] # sh_points[MaxPts]
  /\ Len(sh_polys) > 0
  /\ Len(sh_mesh.vertices) = MaxPts

====
